---- MODULE Spec2Model ----
(***************************************************************************)
(* Model of the quiz server in app.py: the progress-state merge handler    *)
(* (save_state, POST /api/state) over the file quiz-state.json, and the    *)
(* content aggregation (get_all_questions_with_filters, get_questions,     *)
(* get_single_question) over the subjects/ directory tree.                 *)
(***************************************************************************)
EXTENDS Integers, Sequences, FiniteSets, TLC

\* ------------------------------------------------------------------ bounds
\* number of POST /api/state calls in one behaviour (caps the clock)
MaxCalls == 3
\* number of fields one request body carries
MaxFields == 2
\* number of chapter files under subjects/, the stray entries counted as one
MaxFiles == 2
\* number of entries in the chapter files together
MaxRecords == 3
\* number of POST /api/state calls in one behaviour of the threaded server
MaxRaceCalls == 3

\* ------------------------------------------------------------ python values
\* Code-point order of the strings used as identifiers and directory names;
\* Python's sorted() orders str by code point.
Alphabet ==
  <<"README", "alg", "bio", "c1.json", "c2.json", "geo", "math", "notes.txt",
    "old.json", "x", "y">>

RankOf ==
  [n \in {Alphabet[i] : i \in 1..Len(Alphabet)} |->
     CHOOSE i \in 1..Len(Alphabet) : Alphabet[i] = n]
Rank(n) == RankOf[n]

\* sorted(S): the elements of the finite set S in ascending order
RECURSIVE sorted(_)
sorted(S) ==
  IF S = {} THEN <<>>
  ELSE LET m == CHOOSE a \in S : \A b \in S : Rank(a) <= Rank(b)
       IN  <<m>> \o sorted(S \ {m})

\* set(list)
ToSet(s) == {s[i] : i \in 1..Len(s)}

\* dict.get(k, default)
Get(d, k, default) == IF k \in DOMAIN d THEN d[k] ELSE default

\* the empty dict {}
EmptyDict == [k \in {} |-> 0]

\* ------------------------------------------------------ quiz-state.json
FixedKeys ==
  {"attemptedQuestions", "markedForReview", "currentFilter",
   "currentQuestionIndex", "lastUpdated"}

\* A JSON value, by the shape the handler distinguishes:
\*   dict   a mapping (doc holds it)
\*   falsy  a non-mapping that Python treats as false: null, [], 0, "", false
\*   truthy a non-mapping that Python treats as true: [1], 7, "x", true
JDict(d) == [kind |-> "dict", doc |-> d]
JFalsy == [kind |-> "falsy", doc |-> EmptyDict]
JTruthy == [kind |-> "truthy", doc |-> EmptyDict]
\* The file on disk is a JSON value, or absent, or zero-length (just opened
\* with mode 'w'), or bytes json.load rejects.
FAbsent == [kind |-> "absent", doc |-> EmptyDict]
FEmpty == [kind |-> "empty", doc |-> EmptyDict]
FGarbage == [kind |-> "unparseable", doc |-> EmptyDict]

\* lines 410-416: existing = {} ; if the file exists, json.load(f) or {},
\* and {} when reading or parsing raises
load_existing(f) ==
  IF f.kind = "absent" THEN JDict(EmptyDict)
  ELSE IF f.kind \in {"empty", "unparseable"} THEN JDict(EmptyDict)
  ELSE IF f.kind = "falsy" THEN JDict(EmptyDict)
  ELSE IF f.kind = "dict" /\ f.doc = EmptyDict THEN JDict(EmptyDict)
  ELSE f

\* variant of merge_attempts: incoming attemptedQuestions replaces the mapping
merge_attempts_replace(existing, data) ==
  Get(data, "attemptedQuestions",
      Get(existing, "attemptedQuestions", EmptyDict))

\* lines 420-424: existing_attempts.copy() ; .update(incoming_attempts)
merge_attempts(existing, data) ==
  LET existing_attempts == Get(existing, "attemptedQuestions", EmptyDict)
      incoming_attempts == Get(data, "attemptedQuestions", EmptyDict)
  IN  [k \in DOMAIN existing_attempts \cup DOMAIN incoming_attempts |->
         IF k \in DOMAIN incoming_attempts THEN incoming_attempts[k]
         ELSE existing_attempts[k]]

\* variant of merge_mfr: the two lists are concatenated as they are
merge_mfr_concat(existing, data) ==
  Get(existing, "markedForReview", <<>>)
    \o Get(data, "markedForReview", <<>>)

\* variant of merge_mfr: the stored identifiers are left out
merge_mfr_incoming(existing, data) ==
  sorted(ToSet(Get(data, "markedForReview", <<>>)))

\* lines 426-428: sorted(list(existing_mfr.union(incoming_mfr)))
merge_mfr(existing, data) ==
  LET existing_mfr == ToSet(Get(existing, "markedForReview", <<>>))
      incoming_mfr == ToSet(Get(data, "markedForReview", <<>>))
  IN  sorted(existing_mfr \cup incoming_mfr)

\* variant of merge_scalar: the stored value takes precedence
merge_scalar_keep(existing, data, key, default) ==
  Get(existing, key, Get(data, key, default))

\* lines 430-431: data.get(key, existing.get(key, default))
merge_scalar(existing, data, key, default) ==
  Get(data, key, Get(existing, key, default))

\* variant of merge_lastUpdated: the stored timestamp is not consulted
merge_lastUpdated_now(existing, data, t) ==
  Get(data, "lastUpdated", t)

\* line 433: data.get('lastUpdated', existing.get('lastUpdated', utcnow()))
merge_lastUpdated(existing, data, t) ==
  Get(data, "lastUpdated", Get(existing, "lastUpdated", t))

\* lines 418-440: the merged dict, from the loaded dict, the request dict
\* and the value of datetime.utcnow()
merge_state(existing, data, t) ==
  [k \in FixedKeys \cup DOMAIN data \cup DOMAIN existing |->
     IF k = "attemptedQuestions" THEN merge_attempts(existing, data)
     ELSE IF k = "markedForReview" THEN merge_mfr(existing, data)
     ELSE IF k = "currentFilter"
          THEN merge_scalar(existing, data, "currentFilter", "{}")
     ELSE IF k = "currentQuestionIndex"
          THEN merge_scalar(existing, data, "currentQuestionIndex", 0)
     ELSE IF k = "lastUpdated" THEN merge_lastUpdated(existing, data, t)
     ELSE IF k \in DOMAIN data THEN data[k]
     ELSE existing[k]]

\* lines 405-447 run without interruption: the response status and the file
\* left on disk, for request body `body`, file f and clock reading t
save_state_outcome(body, f, t) ==
  IF body.kind # "dict" THEN [status |-> 400, file |-> f]
  ELSE LET existing == load_existing(f)
       IN  IF existing.kind # "dict"
           THEN [status |-> 500, file |-> f]
           ELSE [status |-> 200,
                 file |-> JDict(merge_state(existing.doc, body.doc, t))]

\* ------------------------------------------------------- subjects/ tree
\* A path is the sequence of names below SUBJECTS_DIR; <<>> is SUBJECTS_DIR
\* itself.  The tree maps every existing path to its node.
DirNode == [kind |-> "dir", body |-> [kind |-> "none", items |-> <<>>]]
FileNode(b) == [kind |-> "file", body |-> b]

\* the names that end in '.json'
JsonNames == {"c1.json", "c2.json", "old.json"}

\* what a chapter file holds: a JSON array (items are its entries, each a
\* JSON value), a JSON value that is not an array, or something on which
\* open() or json.load raises (unreadable, not JSON)
ArrayFile(items) == [kind |-> "array", items |-> items]
NonArrayFile == [kind |-> "nonarray", items |-> <<>>]
BrokenFile == [kind |-> "broken", items |-> <<>>]

\* Python truth value of a record's content field; "" stands for the falsy
\* values
Truthy(v) == v # ""

\* os.listdir(path)
listdir(t, path) ==
  {q[Len(path) + 1] :
     q \in {r \in DOMAIN t :
              Len(r) = Len(path) + 1 /\ SubSeq(r, 1, Len(path)) = path}}

isdir(t, path) == path \in DOMAIN t /\ t[path].kind = "dir"
isfile(t, path) == path \in DOMAIN t /\ t[path].kind = "file"

\* variant of get_directories: the names in descending order
RECURSIVE descending(_)
descending(S) ==
  IF S = {} THEN <<>>
  ELSE LET m == CHOOSE a \in S : \A b \in S : Rank(a) >= Rank(b)
       IN  <<m>> \o descending(S \ {m})
get_directories_unsorted(t, path) ==
  IF ~isdir(t, path) THEN <<>>
  ELSE descending({n \in listdir(t, path) : isdir(t, path \o <<n>>)})

\* lines 13-23
get_directories(t, path) ==
  IF ~isdir(t, path) THEN <<>>
  ELSE sorted({n \in listdir(t, path) : isdir(t, path \o <<n>>)})

\* lines 25-35
get_json_files(t, path) ==
  IF ~isdir(t, path) THEN <<>>
  ELSE sorted({n \in listdir(t, path) :
                 n \in JsonNames /\ isfile(t, path \o <<n>>)})

\* lines 37-44
load_questions_from_file(t, path) ==
  IF isfile(t, path) /\ t[path].body.kind = "array"
  THEN t[path].body.items
  ELSE <<>>

\* f"{subject}/{division}/{chapter}:{index}"
FormatId(subject, division, chapter, index) ==
  subject \o "/" \o division \o "/" \o chapter \o ":" \o ToString(index)

\* lines 74-83 and 321-330: {**question, 'id': ..., 'source': {...}}
question_with_meta(question, subject, division, chapter, index) ==
  [k \in DOMAIN question \cup {"id", "source"} |->
     IF k = "id" THEN FormatId(subject, division, chapter, index)
     ELSE IF k = "source"
          THEN [subject |-> subject, division |-> division,
                chapter |-> chapter, index |-> index]
          ELSE question[k]]

RECURSIVE Concat(_)
Concat(ss) == IF ss = <<>> THEN <<>> ELSE Head(ss) \o Concat(Tail(ss))

\* a filter argument is None (<<>>) or a string (<<s>>); Python's
\* `if subject_filter` holds for a string that is not empty
FilterGiven(f) == Len(f) > 0 /\ f[1] # ""
\* `if x_filter and x != x_filter: continue`
Skipped(f, name) == FilterGiven(f) /\ name # f[1]

\* lines 49-69: the chapter files the loops load, in the order they load them
VisitedChapters(t, subject_filter, division_filter, chapter_filter) ==
  LET subjects == get_directories(t, <<>>)
      OfDivision(subject, division) ==
        LET chapters == get_json_files(t, <<subject, division>>)
        IN  Concat([j \in 1..Len(chapters) |->
                     IF Skipped(chapter_filter, chapters[j]) THEN <<>>
                     ELSE << <<subject, division, chapters[j]>> >>])
      OfSubject(subject) ==
        LET divisions == get_directories(t, <<subject>>)
        IN  Concat([j \in 1..Len(divisions) |->
                     IF Skipped(division_filter, divisions[j]) THEN <<>>
                     ELSE OfDivision(subject, divisions[j])])
  IN  Concat([j \in 1..Len(subjects) |->
               IF Skipped(subject_filter, subjects[j]) THEN <<>>
               ELSE OfSubject(subjects[j])])

\* lines 70-84 for one chapter file whose entries are all mappings
ChapterQuestions(t, path) ==
  LET questions == load_questions_from_file(t, path)
  IN  Concat([i \in 1..Len(questions) |->
               IF Truthy(Get(questions[i].doc, "content", ""))
               THEN <<question_with_meta(questions[i].doc, path[1], path[2],
                                         path[3], i - 1)>>
               ELSE <<>>])

\* question.get raises AttributeError on an entry that is not a mapping
HasMalformedEntry(t, path) ==
  LET questions == load_questions_from_file(t, path)
  IN  \E i \in 1..Len(questions) : questions[i].kind # "dict"

\* lines 46-86: the list returned, or the exception leaving the function
get_all_questions_with_filters(t, subject_filter, division_filter, chapter_filter) ==
  LET visited ==
        VisitedChapters(t, subject_filter, division_filter, chapter_filter)
  IN  IF \E j \in 1..Len(visited) : HasMalformedEntry(t, visited[j])
      THEN [raised |-> TRUE, value |-> <<>>]
      ELSE [raised |-> FALSE,
            value |-> Concat([j \in 1..Len(visited) |->
                               ChapterQuestions(t, visited[j])])]

NoFilters == [subject |-> <<>>, division |-> <<>>, chapter |-> <<>>]
NoTarget == [path |-> <<>>, index |-> 0]
NoOutcome ==
  [op |-> "none", status |-> 0, filters |-> NoFilters, target |-> NoTarget,
   questions |-> <<>>]

\* lines 276-299: GET /api/questions
get_questions_outcome(t, filters) ==
  LET r == get_all_questions_with_filters(t, filters.subject,
                                          filters.division, filters.chapter)
  IN  [op |-> "questions",
       status |-> IF r.raised THEN 500 ELSE 200,
       filters |-> filters,
       target |-> NoTarget,
       questions |-> r.value]

\* variant of get_single_question_outcome: content-less records are refused
get_single_question_filtered(t, path, index) ==
  LET questions == load_questions_from_file(t, path)
      found ==
        /\ path \in DOMAIN t
        /\ index < Len(questions)
        /\ questions[index + 1].kind = "dict"
        /\ Truthy(Get(questions[index + 1].doc, "content", ""))
  IN  [op |-> "single",
       status |-> IF found THEN 200 ELSE 404,
       filters |-> NoFilters,
       target |-> [path |-> path, index |-> index],
       questions |->
         IF found
         THEN <<question_with_meta(questions[index + 1].doc, path[1],
                                   path[2], path[3], index)>>
         ELSE <<>>]

\* lines 301-340: GET /api/question/<subject>/<division>/<chapter>/<index>;
\* `questions` holds the question of a 200 response
get_single_question_outcome(t, path, index) ==
  LET questions == load_questions_from_file(t, path)
      st == IF path \notin DOMAIN t THEN 404
            ELSE IF index >= Len(questions) THEN 404
            ELSE IF questions[index + 1].kind # "dict" THEN 500
            ELSE 200
  IN  [op |-> "single",
       status |-> st,
       filters |-> NoFilters,
       target |-> [path |-> path, index |-> index],
       questions |->
         IF st = 200
         THEN <<question_with_meta(questions[index + 1].doc, path[1],
                                   path[2], path[3], index)>>
         ELSE <<>>]

\* SUBJECTS_DIR does not exist
NoTree == [q \in {} |-> DirNode]

\* ------------------------------------------------------- request bodies
\* Each recognised field of a request body is absent (<<>>) or present with
\* one value (<<v>>).  Identifiers "x", "y" are composite question ids.
AttemptChoices ==
  {<<>>,
   <<[k \in {"x"} |-> 1]>>,
   <<[k \in {"x", "y"} |-> IF k = "x" THEN 2 ELSE 1]>>}
MarkChoices == {<<>>, << <<"y", "x">> >>, << <<"x", "x">> >>}
FilterChoices == {<<>>, <<"math">>}
IndexChoices == {<<>>, <<0>>, <<5>>}
StampChoices == {<<>>, <<0>>}
ThemeChoices == {<<>>, <<"dark">>}

\* the dict holding exactly the present fields
MkDict(o) == [k \in {f \in DOMAIN o : Len(o[f]) > 0} |-> o[k][1]]

DictBodies ==
  {JDict(MkDict(o)) :
     o \in {c \in [attemptedQuestions : AttemptChoices,
                   markedForReview : MarkChoices,
                   currentFilter : FilterChoices,
                   currentQuestionIndex : IndexChoices,
                   lastUpdated : StampChoices,
                   theme : ThemeChoices] :
              Cardinality({f \in DOMAIN c : Len(c[f]) > 0}) <= MaxFields}}

\* request.get_json() may also yield a list, a scalar or null
Bodies == DictBodies \cup {JFalsy, JTruthy}

\* the value of lastData before the first call
NoBody == [kind |-> "none", doc |-> EmptyDict]

\* ------------------------------------------------------------------ state
VARIABLES
  file,        \* quiz-state.json
  now,         \* the clock read by datetime.utcnow()
  calls,       \* number of POST /api/state requests received
  status,      \* HTTP status of the last completed save_state (0: none yet)
  prior,       \* quiz-state.json as it was when the last request arrived
  lastData,    \* body of the last request
  repeated,    \* the last request carried the same body as the one before
  everMarked,  \* identifiers submitted in markedForReview so far
  lastAttempt, \* per key, the payload of the latest request submitting it
  pc,          \* per handler thread: where it stands in save_state
  req,         \* per handler thread: the body of its request
  seen,        \* per handler thread: quiz-state.json as it read it
  merged,      \* per handler thread: its local `merged`
  resp,        \* per handler thread: HTTP status of its last response
  tree,        \* the directory tree under subjects/
  outcome      \* the response to the last content request

mergeVars ==
  <<file, now, calls, status, prior, lastData, repeated, everMarked,
    lastAttempt>>
threadVars == <<pc, req, seen, merged, resp>>
contentVars == <<tree, outcome>>
vars == <<mergeVars, threadVars, contentVars>>

\* two requests are served at a time by the threaded development server
Workers == {"t1", "t2"}

\* what a request body submits
SubmittedMarks(body) ==
  IF body.kind = "dict" THEN ToSet(Get(body.doc, "markedForReview", <<>>))
  ELSE {}
SubmittedAttempts(body) ==
  IF body.kind = "dict" THEN Get(body.doc, "attemptedQuestions", EmptyDict)
  ELSE EmptyDict

\* what the stored document holds
StoredMarks(f) ==
  IF f.kind = "dict" THEN Get(f.doc, "markedForReview", <<>>) ELSE <<>>
StoredAttempts(f) ==
  IF f.kind = "dict" THEN Get(f.doc, "attemptedQuestions", EmptyDict)
  ELSE EmptyDict

InitThreads ==
  /\ pc = [w \in Workers |-> "idle"]
  /\ req = [w \in Workers |-> NoBody]
  /\ seen = [w \in Workers |-> FAbsent]
  /\ merged = [w \in Workers |-> EmptyDict]
  /\ resp = [w \in Workers |-> 0]

InitContentIdle ==
  /\ tree = NoTree
  /\ outcome = NoOutcome

InitMerge ==
  /\ now = 0
  /\ calls = 0
  /\ status = 0
  /\ prior = FAbsent
  /\ lastData = NoBody
  /\ repeated = FALSE
  /\ everMarked = {}
  /\ lastAttempt = EmptyDict

InitCommon ==
  /\ InitMerge
  /\ InitThreads
  /\ InitContentIdle

\* a fresh deployment: quiz-state.json does not exist
Init ==
  /\ file = FAbsent
  /\ InitCommon

\* POST /api/state served from start to finish (lines 403-447)
save_state(body) ==
  /\ calls < MaxCalls
  /\ \E r \in {save_state_outcome(body, file, now + 1)} :
       /\ file' = r.file
       /\ status' = r.status
  /\ now' = now + 1
  /\ calls' = calls + 1
  /\ prior' = file
  /\ lastData' = body
  /\ repeated' = (body = lastData)
  /\ everMarked' = everMarked \cup SubmittedMarks(body)
  /\ lastAttempt' =
       LET inc == SubmittedAttempts(body)
       IN  [k \in DOMAIN lastAttempt \cup DOMAIN inc |->
              IF k \in DOMAIN inc THEN inc[k] ELSE lastAttempt[k]]
  /\ UNCHANGED <<threadVars, contentVars>>

Next == \E body \in Bodies : save_state(body)

Spec == Init /\ [][Next]_vars

\* ----------------------------------------------- merge engine: properties
\* the dict the handler works from when the file held f
PriorDoc == load_existing(prior).doc

\* C2: over sequential, non-overlapping save_state calls no update is lost:
\* the stored markedForReview holds every identifier any call submitted, and
\* the stored attemptedQuestions holds every key any call submitted, with
\* the payload of the most recent call that submitted that key.
C2_NoLostUpdateSequential ==
  /\ everMarked \subseteq ToSet(StoredMarks(file))
  /\ \A k \in DOMAIN lastAttempt :
       /\ k \in DOMAIN StoredAttempts(file)
       /\ StoredAttempts(file)[k] = lastAttempt[k]

\* two calls have run; the second submitted a key the first had submitted
\* with another payload, and left alone a key and a mark of the first
C2_Witness ==
  /\ calls > 1
  /\ status = 200
  /\ SubmittedAttempts(lastData) = [k \in {"x"} |-> 1]
  /\ StoredAttempts(prior) = [k \in {"x", "y"} |-> IF k = "x" THEN 2 ELSE 1]
  /\ StoredAttempts(file) = [k \in {"x", "y"} |-> 1]
  /\ SubmittedMarks(lastData) = {"x"}
  /\ StoredMarks(file) = <<"x", "y">>

\* strictly ascending: sorted and free of duplicates
StrictlySorted(s) ==
  \A i, j \in 1..Len(s) : i < j => Rank(s[i]) < Rank(s[j])

\* C3: after every successful save_state, markedForReview is stored sorted
\* and without duplicates, and holds exactly the identifiers stored before
\* together with the incoming ones, whatever order and repetitions the
\* incoming list has.
C3_MarkedSortedUnion ==
  status = 200 =>
    /\ StrictlySorted(StoredMarks(file))
    /\ ToSet(StoredMarks(file)) =
         ToSet(StoredMarks(prior)) \cup SubmittedMarks(lastData)

\* an unsorted list is merged into a stored list it overlaps
C3_Witness ==
  /\ status = 200
  /\ StoredMarks(prior) = <<"x">>
  /\ Get(lastData.doc, "markedForReview", <<>>) = <<"y", "x">>
  /\ StoredMarks(file) = <<"x", "y">>

\* C4: save_state(X) directly followed by save_state(X) leaves the file as
\* the first call left it, lastUpdated included.
C4_Idempotent == repeated => file = prior

\* the same body, without lastUpdated, was merged twice into a document that
\* had no lastUpdated of its own
C4_Witness ==
  /\ repeated
  /\ status = 200
  /\ "lastUpdated" \notin DOMAIN lastData.doc
  /\ "theme" \in DOMAIN prior.doc
  /\ file.doc["lastUpdated"] < now
  /\ SubmittedMarks(lastData) # {}
  /\ DOMAIN SubmittedAttempts(lastData) # {}

\* the value the override rule prescribes for a scalar field
OverrideValue(key, default) ==
  IF key \in DOMAIN lastData.doc THEN lastData.doc[key]
  ELSE IF key \in DOMAIN PriorDoc THEN PriorDoc[key]
  ELSE default

\* C6: after a successful save_state, currentFilter and currentQuestionIndex
\* hold the incoming value when the body has the field (0 included), else
\* the stored value, else the default ({} and 0).
C6_ScalarOverride ==
  status = 200 =>
    /\ file.doc["currentFilter"] = OverrideValue("currentFilter", "{}")
    /\ file.doc["currentQuestionIndex"] =
         OverrideValue("currentQuestionIndex", 0)

\* stored currentQuestionIndex 5 met incoming 0
C6_Witness ==
  /\ status = 200
  /\ prior.kind = "dict"
  /\ prior.doc["currentQuestionIndex"] = 5
  /\ Get(lastData.doc, "currentQuestionIndex", 9) = 0
  /\ file.doc["currentQuestionIndex"] = 0

\* ------------------------------------------- corrupt quiz-state.json
\* quiz-state.json as something other than this server may have left it
InitCorrupt ==
  /\ file \in {FAbsent, FEmpty, FGarbage, JFalsy, JTruthy}
  /\ InitCommon

SpecCorrupt == InitCorrupt /\ [][Next]_vars

\* C5: when quiz-state.json is absent, unparseable or holds a value that is
\* not a mapping, save_state with a mapping body succeeds and stores the
\* body merged into the empty document.
C5_CorruptPriorNeverFails ==
  (calls > 0 /\ prior.kind # "dict" /\ lastData.kind = "dict") =>
    /\ status = 200
    /\ file = JDict(merge_state(EmptyDict, lastData.doc, now))

\* ------------------------------------------------- overlapping requests
\* bodies that carry only the two accumulating fields
RaceBodies ==
  {b \in DictBodies :
     DOMAIN b.doc \subseteq {"attemptedQuestions", "markedForReview"}}

\* lines 406-440: the thread parses the body, reads quiz-state.json and
\* builds `merged`
receive(w, body) ==
  /\ pc[w] = "idle"
  /\ calls < MaxRaceCalls
  /\ calls' = calls + 1
  /\ now' = now + 1
  /\ req' = [req EXCEPT ![w] = body]
  /\ IF body.kind # "dict"
     THEN /\ resp' = [resp EXCEPT ![w] = 400]
          /\ UNCHANGED <<pc, seen, merged>>
     ELSE /\ seen' = [seen EXCEPT ![w] = file]
          /\ IF load_existing(file).kind # "dict"
             THEN /\ resp' = [resp EXCEPT ![w] = 500]
                  /\ UNCHANGED <<pc, merged>>
             ELSE /\ merged' =
                       [merged EXCEPT ![w] =
                          merge_state(load_existing(file).doc, body.doc,
                                      now + 1)]
                  /\ pc' = [pc EXCEPT ![w] = "merged"]
                  /\ resp' = [resp EXCEPT ![w] = 0]
  /\ UNCHANGED <<file, status, prior, lastData, repeated, everMarked,
                 lastAttempt, contentVars>>

\* line 442: open('quiz-state.json', 'w') truncates the file
open_for_write(w) ==
  /\ pc[w] = "merged"
  /\ file' = FEmpty
  /\ pc' = [pc EXCEPT ![w] = "opened"]
  /\ UNCHANGED <<now, calls, status, prior, lastData, repeated, everMarked,
                 lastAttempt, req, seen, merged, resp, contentVars>>

\* lines 443-445: json.dump writes the document from offset 0 of the
\* thread's own handle and the handler answers 200.  Bytes another thread
\* wrote since this thread truncated the file stay behind the document when
\* they reach further, and json.load rejects the result.
dump(w) ==
  /\ pc[w] = "opened"
  /\ file' \in IF file.kind = "empty" THEN {JDict(merged[w])}
               ELSE {JDict(merged[w]), FGarbage}
  /\ pc' = [pc EXCEPT ![w] = "idle"]
  /\ resp' = [resp EXCEPT ![w] = 200]
  /\ UNCHANGED <<now, calls, status, prior, lastData, repeated, everMarked,
                 lastAttempt, req, seen, merged, contentVars>>

NextRace ==
  \E w \in Workers :
    \/ \E body \in RaceBodies : receive(w, body)
    \/ open_for_write(w)
    \/ dump(w)

SpecRace == Init /\ [][NextRace]_vars

\* both threads have answered 200 to requests for which they read the same
\* quiz-state.json, and the file holds a document
BothSucceededFromSamePrior ==
  /\ \A w \in Workers : pc[w] = "idle" /\ resp[w] = 200
  /\ \A v, w \in Workers : seen[v] = seen[w]
  /\ file.kind = "dict"

\* C1: when two overlapping save_state calls read the same stored document
\* and both succeed, the file holds what one of them wrote: the document it
\* read merged with its own body only.
C1_LastWriterWins ==
  BothSucceededFromSamePrior =>
    \E w \in Workers :
      /\ ToSet(StoredMarks(file)) =
           ToSet(StoredMarks(seen[w])) \cup SubmittedMarks(req[w])
      /\ DOMAIN StoredAttempts(file) =
           DOMAIN StoredAttempts(seen[w])
             \cup DOMAIN SubmittedAttempts(req[w])
      /\ \A k \in DOMAIN SubmittedAttempts(req[w]) :
           StoredAttempts(file)[k] = SubmittedAttempts(req[w])[k]

\* both calls returned success, yet the file lacks a mark and an attempt key
\* that one of them submitted
C1_Witness ==
  /\ BothSucceededFromSamePrior
  /\ \E w \in Workers :
       /\ ~(SubmittedMarks(req[w]) \subseteq ToSet(StoredMarks(file)))
       /\ ~(DOMAIN SubmittedAttempts(req[w])
              \subseteq DOMAIN StoredAttempts(file))

\* ------------------------------------------------------ content requests
\* the chapter files a tree of this model may hold: two chapters of one
\* division, two divisions of one subject, two subjects
ChapterPaths ==
  {<<"bio", "alg", "c1.json">>, <<"bio", "alg", "c2.json">>,
   <<"bio", "geo", "c1.json">>, <<"math", "alg", "c1.json">>}

\* entries that the walker must pass over: a regular file in subjects/, a
\* regular file in a subject, a file without '.json' and a directory with
\* '.json' in a division
StrayFiles ==
  {<<"README">>, <<"bio", "notes.txt">>, <<"bio", "alg", "notes.txt">>}
StrayDirs == {<<"bio">>, <<"bio", "alg">>, <<"bio", "alg", "old.json">>}

\* question records: without content, with falsy content, with content,
\* and with content and a field named id of its own
Records ==
  {JDict([answer |-> "A"]),
   JDict([content |-> ""]),
   JDict([content |-> "Q1", id |-> "own"])}
\* an array entry that is not a mapping
MalformedEntry == JTruthy

\* what a chapter file with m entries may hold; a file that is not an
\* array of entries has none
FileBodies(entries, m) ==
  {ArrayFile(items) : items \in [1..m -> entries]}
    \cup (IF m = 0 THEN {NonArrayFile, BrokenFile} ELSE {})

\* the assignments of bodies to the paths of P with at most n entries in all
RECURSIVE FileSets(_, _, _)
FileSets(P, entries, n) ==
  IF P = {} THEN {[q \in {} |-> BrokenFile]}
  ELSE LET p == CHOOSE q \in P : TRUE
       IN  UNION
             {{[q \in DOMAIN rest \cup {p} |->
                  IF q = p THEN b ELSE rest[q]] :
                 rest \in FileSets(P \ {p}, entries, n - m),
                 b \in FileBodies(entries, m)} :
                m \in 0..n}

\* the tree holding the chapter files of `files` (path -> body)
MkTree(files, strays) ==
  LET dirs ==
        {<<>>} \cup {SubSeq(q, 1, n) : q \in DOMAIN files, n \in 1..2}
          \cup (IF strays THEN StrayDirs ELSE {})
      regular == IF strays THEN StrayFiles ELSE {}
  IN  [q \in dirs \cup regular \cup DOMAIN files |->
         IF q \in DOMAIN files THEN FileNode(files[q])
         ELSE IF q \in dirs THEN DirNode
         ELSE FileNode(BrokenFile)]

\* which chapter files exist and whether the stray entries do: at most
\* MaxFiles chapter files, the stray entries counted as one
Shapes ==
  {d \in [paths : SUBSET ChapterPaths, strays : BOOLEAN] :
     Cardinality(d.paths) + (IF d.strays THEN 1 ELSE 0) <= MaxFiles}

\* t is SUBJECTS_DIR missing, or a tree of one of the shapes with at most
\* MaxRecords entries
IsTree(t, entries) ==
  \/ t = NoTree
  \/ \E c \in Shapes :
       \E files \in FileSets(c.paths, entries, MaxRecords) :
         t = MkTree(files, c.strays)

\* query parameters of GET /api/questions: None (<<>>) or a string
SubjectArgs == {<<>>, <<"">>, <<"bio">>, <<"math">>, <<"geo">>}
Queries ==
  {[subject |-> sa, division |-> <<>>, chapter |-> <<>>] : sa \in SubjectArgs}
    \cup {[subject |-> <<>>, division |-> <<"alg">>, chapter |-> <<>>],
          [subject |-> <<>>, division |-> <<>>, chapter |-> <<"c2.json">>],
          [subject |-> <<"bio">>, division |-> <<"alg">>,
           chapter |-> <<"c2.json">>]}
\* path parameters of GET /api/question/...
TargetPaths ==
  {<<"bio", "alg", "c1.json">>, <<"bio", "alg", "old.json">>,
   <<"math", "geo", "c1.json">>}

\* GET /api/questions (lines 276-299)
get_questions(query) ==
  /\ outcome.op = "none"
  /\ outcome' = get_questions_outcome(tree, query)
  /\ UNCHANGED <<tree, mergeVars, threadVars>>

\* GET /api/question/<subject>/<division>/<chapter>/<int:index>
\* (lines 301-340)
get_single_question(path, index) ==
  /\ outcome.op = "none"
  /\ outcome' = get_single_question_outcome(tree, path, index)
  /\ UNCHANGED <<tree, mergeVars, threadVars>>

NextContent ==
  \/ \E query \in Queries : get_questions(query)
  \/ \E path \in TargetPaths, index \in 0..MaxRecords :
       get_single_question(path, index)

\* subjects/ holds question records only
InitContent ==
  /\ IsTree(tree, Records)
  /\ outcome = NoOutcome
  /\ file = FAbsent
  /\ InitMerge
  /\ InitThreads

SpecContent == InitContent /\ [][NextContent]_vars

\* subjects/ may also hold arrays with entries that are not mappings
InitContentCorrupt ==
  /\ IsTree(tree, Records \cup {MalformedEntry})
  /\ outcome = NoOutcome
  /\ file = FAbsent
  /\ InitMerge
  /\ InitThreads

SpecContentCorrupt == InitContentCorrupt /\ [][NextContent]_vars

\* ------------------------------------------------- content: properties
\* the chapter files of the hierarchy: regular '.json' files two
\* directories below subjects/
IsChapterFile(q) ==
  /\ Len(q) = 3
  /\ isfile(tree, q)
  /\ q[3] \in JsonNames
  /\ isdir(tree, <<q[1]>>)
  /\ isdir(tree, <<q[1], q[2]>>)
  /\ isdir(tree, <<>>)

\* the raw record list of the file at q
RawList(q) ==
  IF q \in DOMAIN tree /\ tree[q].kind = "file"
       /\ tree[q].body.kind = "array"
  THEN tree[q].body.items
  ELSE <<>>

\* e is the raw mapping raw found at q, index i, enriched
IsEnriched(e, raw, q, i) ==
  /\ DOMAIN e = DOMAIN raw \cup {"id", "source"}
  /\ \A k \in DOMAIN raw \ {"id", "source"} : e[k] = raw[k]
  /\ e["id"] = FormatId(q[1], q[2], q[3], i)
  /\ e["source"] =
       [subject |-> q[1], division |-> q[2], chapter |-> q[3], index |-> i]

SourcePath(e) ==
  <<e["source"].subject, e["source"].division, e["source"].chapter>>

\* a precedes b in subject, division, chapter file, index order
Precedes(a, b) ==
  LET ka == <<Rank(a["source"].subject), Rank(a["source"].division),
              Rank(a["source"].chapter), a["source"].index>>
      kb == <<Rank(b["source"].subject), Rank(b["source"].division),
              Rank(b["source"].chapter), b["source"].index>>
  IN  \E n \in 1..4 : ka[n] < kb[n] /\ \A m \in 1..(n - 1) : ka[m] = kb[m]

Unfiltered == outcome.op = "questions" /\ outcome.filters = NoFilters

\* C7: GET /api/questions with only a subject argument S returns the
\* records of the unfiltered result whose source.subject is S, in the same
\* order, for every S, the empty string included.
C7_SubjectFilterIsSelection ==
  (/\ outcome.op = "questions"
   /\ Len(outcome.filters.subject) > 0
   /\ outcome.filters.division = <<>>
   /\ outcome.filters.chapter = <<>>) =>
    LET S == outcome.filters.subject[1]
        all == get_all_questions_with_filters(tree, <<>>, <<>>, <<>>).value
        HasSubject(e) == e["source"].subject = S
    IN  outcome.questions = SelectSeq(all, HasSubject)

\* C8: the unfiltered aggregate holds one enriched record for exactly each
\* raw record with truthy content, in subject, division, chapter file, file
\* order; each id is subject/division/chapterFile:index with the index of
\* the record in the raw list, and the ids are pairwise distinct.
C8_AggregateExactOrdered ==
  Unfiltered =>
    LET qs == outcome.questions
    IN  /\ outcome.status = 200
        /\ \A k \in 1..Len(qs) :
             LET q == SourcePath(qs[k])
                 i == qs[k]["source"].index
             IN  /\ IsChapterFile(q)
                 /\ i < Len(RawList(q))
                 /\ Truthy(Get(RawList(q)[i + 1].doc, "content", ""))
                 /\ IsEnriched(qs[k], RawList(q)[i + 1].doc, q, i)
        /\ \A q \in DOMAIN tree :
             IsChapterFile(q) =>
               \A i \in 1..Len(RawList(q)) :
                 Truthy(Get(RawList(q)[i].doc, "content", "")) =>
                   \E k \in 1..Len(qs) :
                     SourcePath(qs[k]) = q /\ qs[k]["source"].index = i - 1
        /\ \A j, k \in 1..Len(qs) :
             j < k => Precedes(qs[j], qs[k]) /\ qs[j]["id"] # qs[k]["id"]

\* two chapter files, the first with a content-less record ahead of a
\* content-bearing one, so that a dropped record has consumed index 0
C8_Witness ==
  /\ Unfiltered
  /\ Len(outcome.questions) = 2
  /\ outcome.questions[1]["id"] = "bio/alg/c2.json:1"
  /\ outcome.questions[2]["id"] = "math/alg/c1.json:0"

\* C9: with a chapter file that is missing, unreadable, unparseable, not an
\* array or an array with entries that are not mappings, the unfiltered
\* aggregate still answers and returns the content-bearing records of every
\* chapter file whose entries are sound.
C9_BadFileDoesNotAbort ==
  Unfiltered =>
    /\ outcome.status = 200
    /\ \A q \in DOMAIN tree :
         (IsChapterFile(q) /\ ~HasMalformedEntry(tree, q)) =>
           \A i \in 1..Len(RawList(q)) :
             Truthy(Get(RawList(q)[i].doc, "content", "")) =>
               \E k \in 1..Len(outcome.questions) :
                 /\ SourcePath(outcome.questions[k]) = q
                 /\ outcome.questions[k]["source"].index = i - 1

\* C10: the single-question request answers 404 when the file does not
\* exist or the index is not below the length of its raw list, and
\* otherwise returns the raw record at that index, enriched, whether or not
\* it has content.
C10_SingleQuestion ==
  outcome.op = "single" =>
    LET q == outcome.target.path
        i == outcome.target.index
    IN  IF q \notin DOMAIN tree \/ i >= Len(RawList(q))
        THEN outcome.status = 404 /\ outcome.questions = <<>>
        ELSE /\ outcome.status = 200
             /\ Len(outcome.questions) = 1
             /\ IsEnriched(outcome.questions[1], RawList(q)[i + 1].doc, q, i)

\* a record without content was returned from index 1
C10_Witness ==
  /\ outcome.op = "single"
  /\ outcome.status = 200
  /\ outcome.target.index = 1
  /\ "content" \notin DOMAIN outcome.questions[1]
  /\ outcome.questions[1]["id"] = "bio/alg/c1.json:1"

====
